---------------------------- MODULE Spec2Model ----------------------------
(***************************************************************************)
(* psqlchunks: the chunk execution engine (src/src/db.cc).                 *)
(*                                                                         *)
(* The engine (class Db) owns one libpq connection handle and runs chunks  *)
(* of SQL inside one outer transaction, each chunk inside a savepoint.     *)
(* The model has three parts:                                              *)
(*   - the engine's fields (conn, do_commit, failed_count, in_transaction) *)
(*     and the chunks' diagnostics, changed exactly as db.cc changes them; *)
(*   - the libpq handles and the PostgreSQL session behind the handle the  *)
(*     engine holds: every PQexec of db.cc acts on this session;           *)
(*   - the position of the main thread inside runChunk.  runChunk blocks   *)
(*     in PQexec four times; between the moment a statement is sent and    *)
(*     the moment its result is read, the connection may be lost and       *)
(*     another thread may call cancel().  Each blocking PQexec is one      *)
(*     step; the code between two PQexec calls runs with the step that     *)
(*     reads the result of the first.                                      *)
(***************************************************************************)
EXTENDS Integers, Sequences, FiniteSets, TLC

(* ------------------------------ bounds --------------------------------- *)
\* number of runChunk calls in one behaviour
MaxRuns == 2
\* number of connection handles PQsetdbLogin hands out in one behaviour
MaxConn == 1

\* the chunks handed to the engine: one of each shape of SQL text (see Sql)
Chunks == {1, 2}

\* length of the parameter string given to setParams
MaxLen == 3
\* line numbers a LineFilter holds (setParams appends to them)
MaxNumbers == 3
\* filters added to one FilterChain
MaxFilters == 3
\* the seconds of the timestamps given to timeval_subtract: 5..5+SecSpan
SecSpan == 1
Handles == 1..MaxConn

(* --------------------------- program constants ------------------------- *)
\* a NULL PGconn pointer (Db::Db sets conn(NULL))
NULL == 0
\* the "not available" line number the engine stores when the database
\* reports no position
LINE_NUMBER_NOT_AVAILABLE == 0
\* microseconds in a second (db.cc 21-22, 25-27)
Million == 1000000
\* PQresultErrorField returned NULL: the report has no such field
NoField == "(null)"
\* PG_DIAG_STATEMENT_POSITION absent
NoPos == 0

\* messages of the DbException thrown by the engine
ExcLost == "lost db connection"
ExcPQexec == "PQExec failed"
ExcQuery == "could not execute query"
ExcClock == "strerror(errno)"
Exceptions == {ExcLost, ExcPQexec, ExcQuery, ExcClock}

(* ------------------------------ the chunks ----------------------------- *)
\* Chunk::start_line: the source line the chunk's SQL starts at
StartLine(c) == 10 * c

\* Chunk::getSql(): the SQL text, a sequence of characters.  Odd chunks hold
\* two lines ("a\nb;", as "select 1;\nselct 2;"), even chunks one line.
Sql(c) == IF c % 2 = 1 THEN <<"a", "\n", "b", ";">> ELSE <<"a", ";">>

VARIABLES
    conn,            \* Db::conn: NULL or a handle
    do_commit,       \* Db::do_commit
    failed_count,    \* Db::failed_count
    in_transaction,  \* Db::in_transaction
    diag,            \* chunk -> Chunk::diagnostics
    hstate,          \* handle -> "unused" | "ok" | "bad" | "freed"
    dbTxn,           \* transaction block state of the session behind conn
    work,            \* uncommitted effects in the session's transaction
    sp,              \* savepoint "chunk": <<>> or <<the effects it holds>>
    committed,       \* effects committed to the database
    pc,              \* where the main thread is: "idle" between calls, in
                     \* runChunk the statement in flight, "aborted"
    cur,             \* the chunk runChunk is running
    cancelHit,       \* a cancel request reached the statement in flight
    ret,             \* outcome of the last call of the main thread
    \* what an observer of the run writes down (no code reads these)
    nrun,            \* runChunk calls so far
    nFalse,          \* runChunk calls that returned false since the last finalize
    anyFail,         \* some runChunk ended with status Fail since the last finalize
    anyThrow,        \* some runChunk ended with an exception since the last finalize
    anyCancelled,    \* a cancel interrupted some chunk's SQL since the last finalize
    okSet,           \* chunks whose runChunk returned true in this transaction
    workAtCall,      \* the session's effects when the chunk's savepoint was set
    sqlErr,          \* the error result of the SQL of the chunk being run
    fin,             \* what the finalize that has just returned found
    \* the thread that calls cancel
    cancelOut,       \* what the call of Db::cancel that has just returned gave
    \* the filters (src/src/filter.cc)
    filter,          \* the Filter being configured: kind, LineFilter::linenumbers
    setRet,          \* what the last setParams returned and left in errmsg
    filters,         \* FilterChain::filters
    \* timeval_subtract (db.cc 17-35)
    tvx,             \* x: the end time
    tvy,             \* y: the start time (timeval_subtract writes to it)
    tvres            \* result and the value returned, once computed

engine == <<conn, do_commit, failed_count, in_transaction>>
session == <<dbTxn, work, sp, committed>>
thread == <<pc, cur, cancelHit>>
history == <<nrun, nFalse, anyFail, anyThrow, anyCancelled, okSet, workAtCall,
             sqlErr, fin>>
vars == <<conn, do_commit, failed_count, in_transaction, diag, hstate,
          dbTxn, work, sp, committed, pc, cur, cancelHit, ret,
          nrun, nFalse, anyFail, anyThrow, anyCancelled, okSet, workAtCall,
          sqlErr, fin, cancelOut, filter, setRet, filters, tvx, tvy, tvres>>

\* the engine and its session, threads and observers
dbvars == <<conn, do_commit, failed_count, in_transaction, diag, hstate,
            dbTxn, work, sp, committed, pc, cur, cancelHit, ret,
            nrun, nFalse, anyFail, anyThrow, anyCancelled, okSet, workAtCall,
            sqlErr, fin, cancelOut>>
\* the filters
fvars == <<filter, setRet, filters>>
\* the arguments and the result of timeval_subtract
tvars == <<tvx, tvy, tvres>>

\* no call of cancel has just returned
NoCancel == [ret |-> "none", errmsg |-> ""]

\* a step of the main thread or of the connection: no call of cancel has
\* just returned
aside ==
    /\ cancelOut' = NoCancel
    /\ UNCHANGED <<fvars, tvars>>


(* ------------------------- diagnostics of a chunk ---------------------- *)
\* Diagnostics as the splitter hands it over: not run, nothing recorded
InitDiag ==
    [status |-> "NotRun", error_line |-> LINE_NUMBER_NOT_AVAILABLE,
     sqlstate |-> "", msg_primary |-> "", msg_detail |-> "", msg_hint |-> ""]

\* The error reports the database can attach to a failed chunk (PGresult
\* error fields).  A syntax error carries a statement position and a hint,
\* a constraint violation a detail and no position.
ServerReports(c) ==
    { [pos |-> p, sqlstate |-> "42601", msg_primary |-> "syntax error",
       msg_detail |-> NoField, msg_hint |-> "check the statement"]
        : p \in 1..(Len(Sql(c)) + 1) }
    \cup
    { [pos |-> NoPos, sqlstate |-> "23505", msg_primary |-> "duplicate key",
       msg_detail |-> "key exists", msg_hint |-> NoField] }

\* The result libpq makes up itself when the connection breaks while the
\* statement is in flight: PGRES_FATAL_ERROR without any error field
ClientReport ==
    [pos |-> NoPos, sqlstate |-> NoField, msg_primary |-> NoField,
     msg_detail |-> NoField, msg_hint |-> NoField]

\* the report of a statement interrupted by a cancel request
CancelReport ==
    [pos |-> NoPos, sqlstate |-> "57014", msg_primary |-> "canceling statement",
     msg_detail |-> NoField, msg_hint |-> NoField]

\* std::count(sql.begin(), sql.begin()+pos, '\n')
RECURSIVE CountNewlines(_, _)
CountNewlines(sql, pos) ==
    IF pos = 0 THEN 0
    ELSE CountNewlines(sql, pos - 1) + (IF sql[pos] = "\n" THEN 1 ELSE 0)

\* the condition under which the position is translated to a line
PosInText(sql, pos) == pos < Len(sql)

\* error_line after a failure with report r
ErrorLine(c, r, old) ==
    IF r.pos # NoPos
    THEN IF PosInText(Sql(c), r.pos)
         THEN StartLine(c) + CountNewlines(Sql(c), r.pos)
         ELSE old
    ELSE LINE_NUMBER_NOT_AVAILABLE

\* one message field: assigned only when the report has it
Assign(field, old) == IF field # NoField THEN field ELSE old

\* the diagnostics of a chunk whose result was an error with report r
FailDiag(c, r, d) ==
    [status |-> "Fail",
     error_line |-> ErrorLine(c, r, d.error_line),
     sqlstate |-> Assign(r.sqlstate, d.sqlstate),
     msg_primary |-> Assign(r.msg_primary, d.msg_primary),
     msg_detail |-> Assign(r.msg_detail, d.msg_detail),
     msg_hint |-> Assign(r.msg_hint, d.msg_hint)]

\* chunk.diagnostics.status = Diagnostics::Ok: only the status is written
ResetStatus(d) == [d EXCEPT !.status = "Ok"]

(* --------------------- the database session (PQexec) ------------------- *)
\* the effects chunk c leaves when all of its SQL ran, and when it broke off
Effect(c) == c
Partial(c) == 0 - c

Session(t, w, s, k) == [txn |-> t, work |-> w, sp |-> s, committed |-> k]
Here == Session(dbTxn, work, sp, committed)

\* What the PostgreSQL session does with one statement; ok says whether the
\* result is PGRES_COMMAND_OK / PGRES_TUPLES_OK (a warning is ok too).
\* In a failed transaction block only rollback statements are accepted.
ServerExec(stmt, c, accept, cancelled) ==
    LET fail == [ok |-> FALSE, s |-> Here]
        abort == [ok |-> FALSE,
                  s |-> [Here EXCEPT !.txn = IF dbTxn = "open" THEN "aborted" ELSE dbTxn]]
    IN
    IF stmt = "commit;" THEN
        IF dbTxn = "open"
        THEN [ok |-> TRUE,
              s |-> Session("idle", {}, <<>>, committed \cup work)]
        ELSE [ok |-> TRUE, s |-> Session("idle", {}, <<>>, committed)]
    ELSE IF stmt = "rollback;" THEN
        [ok |-> TRUE, s |-> Session("idle", {}, <<>>, committed)]
    ELSE IF cancelled THEN
        IF stmt = "sql" /\ dbTxn = "open"
        THEN [ok |-> FALSE, s |-> Session("aborted", work \cup {Partial(c)}, sp, committed)]
        ELSE abort
    ELSE IF stmt = "begin;" THEN
        IF dbTxn = "idle" THEN [ok |-> TRUE, s |-> Session("open", {}, <<>>, committed)]
        ELSE IF dbTxn = "open" THEN [ok |-> TRUE, s |-> Here]
        ELSE fail
    ELSE IF stmt = "savepoint chunk;" THEN
        IF dbTxn = "open" THEN [ok |-> TRUE, s |-> [Here EXCEPT !.sp = <<work>>]]
        ELSE abort
    ELSE IF stmt = "release savepoint chunk;" THEN
        IF dbTxn = "open" /\ sp # <<>> THEN [ok |-> TRUE, s |-> [Here EXCEPT !.sp = <<>>]]
        ELSE abort
    ELSE IF stmt = "rollback to savepoint chunk;" THEN
        IF dbTxn \in {"open", "aborted"} /\ sp # <<>>
        THEN [ok |-> TRUE, s |-> Session("open", sp[1], sp, committed)]
        ELSE abort
    ELSE \* the chunk's SQL
        IF dbTxn = "open" THEN
            IF accept
            THEN [ok |-> TRUE, s |-> [Here EXCEPT !.work = work \cup {Effect(c)}]]
            ELSE [ok |-> FALSE,
                  s |-> Session("aborted", work \cup {Partial(c)}, sp, committed)]
        ELSE IF dbTxn = "idle" THEN
            IF accept
            THEN [ok |-> TRUE, s |-> [Here EXCEPT !.committed = committed \cup {Effect(c)}]]
            ELSE fail
        ELSE fail

\* PQstatus(conn): CONNECTION_OK or CONNECTION_BAD.  PQstatus(NULL) is
\* CONNECTION_BAD.  After PQfinish the handle is freed and conn dangles: the
\* read of its status field is a read of freed memory and may give either.
PQstatus ==
    IF conn = NULL THEN {"CONNECTION_BAD"}
    ELSE IF hstate[conn] = "ok" THEN {"CONNECTION_OK"}
    ELSE IF hstate[conn] = "bad" THEN {"CONNECTION_BAD"}
    ELSE {"CONNECTION_OK", "CONNECTION_BAD"}

\* the connection can carry a statement to the server
Live == conn # NULL /\ hstate[conn] = "ok"

\* The results PQexec can return for a statement sent now and answered at
\* once (finish's commit / rollback): NULL when the statement cannot be
\* dispatched (a connection that is not open never can), otherwise what the
\* session answers.
PQexecNow(stmt) ==
    IF Live
    THEN {[res |-> "NULL", s |-> Here]}
         \cup {LET x == ServerExec(stmt, 0, TRUE, FALSE)
               IN [res |-> IF x.ok THEN "OK" ELSE "ERROR", s |-> x.s]}
    ELSE {[res |-> "NULL", s |-> Here]}

SetSession(s) ==
    /\ dbTxn' = s.txn
    /\ work' = s.work
    /\ sp' = s.sp
    /\ committed' = s.committed


\* The results PQexec can return for a statement of runChunk that was sent
\* (the thread is blocked in it) and is answered now:
\*   "lost"      the connection broke while the statement was in flight:
\*               libpq's own PGRES_FATAL_ERROR result, the session is gone;
\*   "null"      NULL: the statement could not be dispatched;
\*   "answer"    the session's answer to a statement it accepts if it can;
\*   "rejected"  the database rejects the chunk's SQL with one of its reports;
\*   "cancelled" a cancel request of another thread reached the session and
\*               interrupts this statement (a request can also come too late
\*               for it and stay pending: hit).
InFlight(stmt, c) ==
    IF ~Live
    THEN {[kind |-> "lost", res |-> "ERROR", s |-> Here, rep |-> ClientReport,
           hit |-> FALSE]}
    ELSE {[kind |-> "null", res |-> "NULL", s |-> Here, rep |-> ClientReport,
           hit |-> cancelHit]}
         \cup {LET x == ServerExec(stmt, c, TRUE, FALSE)
               IN [kind |-> "answer", res |-> IF x.ok THEN "OK" ELSE "ERROR",
                   s |-> x.s, rep |-> ClientReport, hit |-> cancelHit]}
         \cup (IF stmt = "sql"
               THEN {[kind |-> "rejected", res |-> "ERROR",
                      s |-> ServerExec(stmt, c, FALSE, FALSE).s,
                      rep |-> r, hit |-> cancelHit] : r \in ServerReports(c)}
               ELSE {})
         \cup (IF cancelHit
               THEN {[kind |-> "cancelled", res |-> "ERROR",
                      s |-> ServerExec(stmt, c, TRUE, TRUE).s,
                      rep |-> CancelReport, hit |-> FALSE]}
               ELSE {})

(* ---------------------- filters and time: values ----------------------- *)
\* a Filter as constructed: a LineFilter has no line numbers.  configured
\* is the observer's note that a setParams of this filter has returned true.
NewFilter(kind) == [kind |-> kind, linenumbers |-> <<>>, configured |-> FALSE]

\* setParams has not been called
NoSet == [ret |-> "none", errmsg |-> "", params |-> <<>>]

\* struct timeval
Timeval(sec, usec) == [tv_sec |-> sec, tv_usec |-> usec]

\* timeval_subtract has not been called
NoResult == [called |-> FALSE, result |-> Timeval(0, 0), negative |-> FALSE,
             start |-> Timeval(0, 0)]

(* ------------------------------- Init ---------------------------------- *)
\* no finalize has just returned, or one that found no effects to decide on
NoFin == "none"
\* the SQL of the chunk being run has no error result (so far)
NoErr == [kind |-> "none", pos |-> NoPos]

InitDb ==
    /\ conn = NULL
    /\ do_commit = FALSE
    /\ failed_count = 0
    /\ in_transaction = FALSE
    /\ diag = [c \in Chunks |-> InitDiag]
    /\ hstate = [h \in Handles |-> "unused"]
    /\ dbTxn = "idle"
    /\ work = {}
    /\ sp = <<>>
    /\ committed = {}
    /\ pc = "idle"
    /\ cur = 0
    /\ cancelHit = FALSE
    /\ ret = "none"
    /\ nrun = 0
    /\ nFalse = 0
    /\ anyFail = FALSE
    /\ anyThrow = FALSE
    /\ anyCancelled = FALSE
    /\ okSet = {}
    /\ workAtCall = {}
    /\ sqlErr = NoErr
    /\ fin = NoFin
    /\ cancelOut = NoCancel

InitFilter ==
    /\ filter = NewFilter("LineFilter")
    /\ setRet = NoSet
    /\ filters = <<>>

Init ==
    /\ InitDb
    /\ InitFilter
    /\ tvx = Timeval(0, 0)
    /\ tvy = Timeval(0, 0)
    /\ tvres = NoResult

(* ------------------------- connect / setCommit ------------------------- *)
\* Db::connect: conn = PQsetdbLogin(...); return isConnected().
\* PQsetdbLogin always makes a new handle, open or not; the handle conn held
\* before is overwritten, and the fields of the engine are left as they are.
Connect ==
    /\ pc = "idle"
    /\ \E h \in Handles :
        /\ hstate[h] = "unused"
        /\ \A g \in Handles : g < h => hstate[g] # "unused"
        /\ \E st \in {"ok", "bad"} :
            /\ hstate' = [hstate EXCEPT ![h] = st]
            /\ ret' = IF st = "ok" THEN "true" ELSE "false"
        /\ conn' = h
    /\ dbTxn' = "idle"
    /\ work' = {}
    /\ sp' = <<>>
    /\ fin' = NoFin
    /\ UNCHANGED <<do_commit, failed_count, in_transaction, diag, committed,
                   thread, nrun, nFalse, anyFail, anyThrow, anyCancelled, okSet,
                   workAtCall, sqlErr>>
    /\ aside

\* the caller sets the commit policy
SetCommit ==
    /\ pc = "idle"
    /\ do_commit' = ~do_commit
    /\ fin' = NoFin
    /\ UNCHANGED <<conn, failed_count, in_transaction, diag, hstate, session,
                   thread, ret, nrun, nFalse, anyFail, anyThrow, anyCancelled,
                   okSet, workAtCall, sqlErr>>
    /\ aside

\* the connection breaks: PQstatus turns CONNECTION_BAD, and the server ends
\* the session, rolling back what it had not committed
ConnLost ==
    /\ Live
    /\ hstate' = [hstate EXCEPT ![conn] = "bad"]
    /\ dbTxn' = "idle"
    /\ work' = {}
    /\ sp' = <<>>
    /\ UNCHANGED <<engine, diag, committed, thread, ret, history>>
    /\ aside

(* ------------------------------ runChunk ------------------------------- *)
\* IsConnected without the test of PQstatus (db.cc 83)
IsConnected_Always(st) == TRUE

\* Db::isConnected: PQstatus(conn) == CONNECTION_OK
IsConnected(st) == st = "CONNECTION_OK"

\* the call of runChunk is over
Left ==
    /\ pc' = "idle"
    /\ cur' = 0
    /\ cancelHit' = FALSE
    /\ workAtCall' = {}
    /\ sqlErr' = NoErr

\* throw out of runChunk; failedNow: the chunk's status is Fail in this call
Throw(msg, failedNow) ==
    /\ Left
    /\ ret' = msg
    /\ anyThrow' = TRUE
    /\ anyFail' = (anyFail \/ failedNow)
    /\ UNCHANGED <<nFalse, okSet>>

\* runChunk goes on to its next PQexec of chunk c; hit is the cancel request
\* pending, w the effects under the savepoint, e the SQL's error result
Goto(p, c, hit, w, e) ==
    /\ pc' = p
    /\ cur' = c
    /\ cancelHit' = hit
    /\ workAtCall' = w
    /\ sqlErr' = e
    /\ UNCHANGED <<ret, nFalse, anyFail, anyThrow, okSet>>

\* db.cc 113-123: the status is set to Ok, the clock is read, and the
\* savepoint statement is sent (PQexec returns NULL at once on a connection
\* that is not open)
Prologue(c, hit) ==
    /\ diag' = [diag EXCEPT ![c] = ResetStatus(@)]
    /\ \E clock \in BOOLEAN :
        IF ~clock THEN Throw(ExcClock, FALSE)
        ELSE IF ~Live THEN Throw(ExcPQexec, FALSE)
        ELSE Goto("savepoint", c, hit, {}, NoErr)

\* Db::begin: executeSql("begin;") unless in_transaction
Begin(c) ==
    IF in_transaction
    THEN Prologue(c, cancelHit)
    ELSE /\ IF Live THEN Goto("begin", c, cancelHit, {}, NoErr)
            ELSE Throw(ExcPQexec, FALSE)
         /\ UNCHANGED diag

\* Db::runChunk is called: db.cc 104-111, and on to the first PQexec
RunChunk(c) ==
    /\ pc = "idle"
    /\ nrun < MaxRuns
    /\ nrun' = nrun + 1
    /\ fin' = NoFin
    /\ \E st \in PQstatus :
        IF ~IsConnected(st)
        THEN /\ Throw(ExcLost, FALSE)
             /\ UNCHANGED diag
        ELSE Begin(c)
    /\ UNCHANGED <<engine, hstate, session, anyCancelled>>
    /\ aside

\* the result of "begin;" is read: db.cc 219-255, then 113-123
BeginReply ==
    /\ pc = "begin"
    /\ \E o \in InFlight("begin;", cur) :
        /\ SetSession(o.s)
        /\ IF o.res = "NULL"
           THEN Throw(ExcPQexec, FALSE) /\ UNCHANGED <<in_transaction, diag>>
           ELSE IF o.res = "ERROR"
           THEN Throw(ExcQuery, FALSE) /\ UNCHANGED <<in_transaction, diag>>
           ELSE /\ in_transaction' = TRUE
                /\ Prologue(cur, o.hit)
    /\ UNCHANGED <<conn, do_commit, failed_count, hstate, nrun, anyCancelled, fin>>
    /\ aside

\* the result of "savepoint chunk;" is read (db.cc 123), and the chunk's SQL
\* is sent (db.cc 125)
SavepointReply ==
    /\ pc = "savepoint"
    /\ \E o \in InFlight("savepoint chunk;", cur) :
        /\ SetSession(o.s)
        /\ IF o.res = "NULL" THEN Throw(ExcPQexec, FALSE)
           ELSE IF o.res = "ERROR" THEN Throw(ExcQuery, FALSE)
           ELSE Goto("sql", cur, o.hit, work, NoErr)
    /\ UNCHANGED <<engine, diag, hstate, nrun, anyCancelled, fin>>
    /\ aside

\* EndStmt that ends a failed chunk by rolling back the whole transaction
EndStmt_RollbackAll(status) ==
    IF status # "Ok" THEN "rollback;"
    ELSE "release savepoint chunk;"

\* the savepoint statement that ends the chunk: db.cc 185-191
EndStmt(status) ==
    IF status # "Ok" THEN "rollback to savepoint chunk;"
    ELSE "release savepoint chunk;"

\* the result of the chunk's SQL is read: db.cc 125-191, up to the PQexec of
\* the statement that ends the chunk
SqlReply ==
    /\ pc = "sql"
    /\ \E o \in InFlight("sql", cur) :
        /\ SetSession(o.s)
        /\ anyCancelled' = (anyCancelled \/ o.kind = "cancelled")
        /\ IF o.res = "NULL"
           THEN Throw(ExcPQexec, FALSE) /\ UNCHANGED diag
           ELSE \E clock \in BOOLEAN :
                IF ~clock
                THEN Throw(ExcClock, FALSE) /\ UNCHANGED diag
                ELSE /\ diag' = IF o.res = "ERROR"
                                THEN [diag EXCEPT ![cur] = FailDiag(cur, o.rep, @)]
                                ELSE diag
                     /\ IF Live
                        THEN Goto("end", cur, o.hit, workAtCall,
                                  IF o.res = "ERROR"
                                  THEN [kind |-> o.kind, pos |-> o.rep.pos]
                                  ELSE NoErr)
                        ELSE Throw(ExcPQexec, o.res = "ERROR")
    /\ UNCHANGED <<engine, hstate, nrun, fin>>
    /\ aside

\* CountFailed without the increment (db.cc 187)
CountFailed_Never(fc, failed) == fc

\* failed_count after the chunk ended: db.cc 185-188
CountFailed(fc, failed) == IF failed THEN fc + 1 ELSE fc

\* Returns without the test of the status (db.cc 193)
Returns_True(status) == "true"

\* the value runChunk returns: db.cc 193
Returns(status) == IF status = "Ok" THEN "true" ELSE "false"

\* the result of the release / rollback-to statement is read, and runChunk
\* returns: db.cc 185-193
EndReply ==
    /\ pc = "end"
    /\ LET failed == diag[cur].status # "Ok" IN
       \E o \in InFlight(EndStmt(diag[cur].status), cur) :
        /\ SetSession(o.s)
        /\ IF o.res = "NULL"
           THEN Throw(ExcPQexec, failed) /\ UNCHANGED failed_count
           ELSE IF o.res = "ERROR"
           THEN Throw(ExcQuery, failed) /\ UNCHANGED failed_count
           ELSE /\ failed_count' = CountFailed(failed_count, failed)
                /\ ret' = Returns(diag[cur].status)
                /\ nFalse' = IF failed THEN nFalse + 1 ELSE nFalse
                /\ anyFail' = (anyFail \/ failed)
                /\ okSet' = IF failed THEN okSet ELSE okSet \cup {cur}
                /\ Left
                /\ UNCHANGED anyThrow
    /\ UNCHANGED <<conn, do_commit, in_transaction, diag, hstate, nrun,
                   anyCancelled, fin>>
    /\ aside

(* ---------------------------- finish / disconnect ---------------------- *)
\* FinishStmt without the test of failed_count (db.cc 200)
FinishStmt_IgnoresFailures ==
    IF ~do_commit THEN "rollback;" ELSE "commit;"

\* FinishStmt without the test of do_commit (db.cc 262)
FinishStmt_IgnoresPolicy ==
    IF failed_count > 0 THEN "rollback;" ELSE "commit;"

\* The statement finish sends when a transaction is open: db.cc 200-205 with
\* Db::commit 262-264: rollback after a failed chunk or without do_commit
FinishStmt ==
    IF failed_count > 0 THEN "rollback;"
    ELSE IF ~do_commit THEN "rollback;"
    ELSE "commit;"

\* Db::finish (with Db::commit, Db::rollback, Db::executeSql): the ways it can
\* end.  exc is the exception it throws, or "none"; it and fc are
\* in_transaction and failed_count afterwards, s the session afterwards.
FinishOutcomes ==
    IF ~in_transaction
    THEN {[exc |-> "none", it |-> FALSE, fc |-> 0, s |-> Here]}
    ELSE {IF o.res = "NULL"
          THEN [exc |-> ExcPQexec, it |-> in_transaction, fc |-> failed_count, s |-> o.s]
          ELSE IF o.res = "ERROR"
          THEN [exc |-> ExcQuery, it |-> in_transaction, fc |-> failed_count, s |-> o.s]
          ELSE [exc |-> "none", it |-> FALSE, fc |-> 0, s |-> o.s]
            : o \in PQexecNow(FinishStmt)}

\* what a finalize that returns found: an open outer transaction holding
\* effects, after a run with a chunk that ended Fail ("failed run") or after a
\* run in which every runChunk returned true ("clean run")
Found ==
    IF ~(in_transaction /\ dbTxn = "open" /\ work # {}) THEN NoFin
    ELSE IF anyFail THEN "failed run"
    ELSE IF ~anyThrow THEN "clean run"
    ELSE NoFin

\* what finish leaves in the engine and in the observer's books
Finished(f) ==
    /\ in_transaction' = f.it
    /\ failed_count' = f.fc
    /\ ret' = IF f.exc = "none" THEN "void" ELSE f.exc
    /\ fin' = IF f.exc = "none" THEN Found ELSE NoFin
    /\ IF f.exc = "none"
       THEN /\ nFalse' = 0
            /\ anyFail' = FALSE
            /\ anyThrow' = FALSE
            /\ anyCancelled' = FALSE
            /\ okSet' = {}
       ELSE UNCHANGED <<nFalse, anyFail, anyThrow, anyCancelled, okSet>>
    /\ UNCHANGED <<conn, do_commit, diag, thread, nrun, workAtCall, sqlErr>>

\* Db::finish called by the caller
Finish ==
    /\ pc = "idle"
    /\ \E f \in FinishOutcomes :
        /\ Finished(f)
        /\ SetSession(f.s)
    /\ UNCHANGED hstate
    /\ aside

\* conn points at a handle that PQfinish has freed
Dangling == conn # NULL /\ hstate[conn] = "freed"

\* PQfinish(conn) of a handle that is already freed frees it a second time:
\* the allocator may notice and abort the process, or the call may go
\* through with nothing to be seen
DoubleFree == {"abort", "unnoticed"}

\* the process is aborted: no thread takes another step
Abort ==
    /\ pc' = "aborted"
    /\ ret' = "abort"
    /\ fin' = NoFin
    /\ UNCHANGED <<engine, diag, hstate, session, cur, cancelHit, nrun, nFalse,
                   anyFail, anyThrow, anyCancelled, okSet, workAtCall, sqlErr>>

\* Db::disconnect, also called by ~Db: finish(); PQfinish(conn).  An
\* exception of finish leaves disconnect before PQfinish.  PQfinish closes
\* the session, frees the handle, and leaves conn pointing at it;
\* PQfinish(NULL) does nothing.
Disconnect ==
    /\ pc = "idle"
    /\ \E f \in FinishOutcomes :
        IF f.exc # "none" \/ conn = NULL
        THEN /\ Finished(f)
             /\ SetSession(f.s)
             /\ UNCHANGED hstate
        ELSE IF Dangling
        THEN \E o \in DoubleFree :
               IF o = "abort" THEN Abort
               ELSE /\ Finished(f)
                    /\ SetSession(f.s)
                    /\ UNCHANGED hstate
        ELSE /\ Finished(f)
             /\ hstate' = [hstate EXCEPT ![conn] = "freed"]
             /\ SetSession(Session("idle", {}, <<>>, f.s.committed))
    /\ aside

(* -------------------------------- cancel ------------------------------- *)
\* CancelOutcomes without the test of isConnected (db.cc 285-288)
CancelOutcomes_NoGuard(st) ==
    {[ret |-> "false", errmsg |-> "", delivered |-> FALSE],
     [ret |-> "false", errmsg |-> "PQcancel failed", delivered |-> FALSE],
     [ret |-> "true", errmsg |-> "", delivered |-> Live]}

\* Db::cancel (db.cc 283-309), called by another thread at any moment with
\* an empty errmsg.  The ways the call can go, given what isConnected read:
\* ret is the value returned, errmsg the caller's string afterwards, and
\* delivered says that the request reached the session.
\*   not connected:            true, nothing done (db.cc 285-288);
\*   PQgetCancel gives NULL:   false, errmsg not written (db.cc 291-295);
\*   PQcancel fails:           false, errmsg is PQcancel's text (db.cc 300-304);
\*   PQcancel succeeds:        true; only an open connection carries the
\*                             request to the session.
CancelOutcomes(st) ==
    IF ~IsConnected(st)
    THEN {[ret |-> "true", errmsg |-> "", delivered |-> FALSE]}
    ELSE {[ret |-> "false", errmsg |-> "", delivered |-> FALSE],
          [ret |-> "false", errmsg |-> "PQcancel failed", delivered |-> FALSE],
          [ret |-> "true", errmsg |-> "", delivered |-> Live]}

\* Db::cancel.  A request that is delivered while a statement of runChunk is
\* in flight reaches that statement or a later one of the call; a request
\* that reaches an idle session is dropped.
Cancel ==
    /\ pc # "aborted"
    /\ \E st \in PQstatus : \E o \in CancelOutcomes(st) :
        /\ cancelOut' = [ret |-> o.ret, errmsg |-> o.errmsg]
        /\ cancelHit' = IF o.delivered /\ pc # "idle" THEN TRUE ELSE cancelHit
    /\ UNCHANGED <<engine, diag, hstate, session, pc, cur, ret, history>>
    /\ UNCHANGED <<fvars, tvars>>

(* --------------------------------- Next -------------------------------- *)
Next ==
    \/ Connect
    \/ SetCommit
    \/ ConnLost
    \/ \E c \in Chunks : RunChunk(c)
    \/ BeginReply
    \/ SavepointReply
    \/ SqlReply
    \/ EndReply
    \/ Finish
    \/ Disconnect
    \/ Cancel

Spec == Init /\ [][Next]_vars


(* ======================================================================= *)
(* The filters (src/src/filter.cc).                                        *)
(* ======================================================================= *)
\* the characters of a parameter string: a digit, the comma, a letter
Alphabet == {"5", ",", "x"}
ParamStrings == UNION {[1..n -> Alphabet] : n \in 0..MaxLen}

\* the chunks the filters are asked about: start_line, end_line,
\* description and SQL text
FilterChunks ==
    {[start_line |-> 3, end_line |-> 7, description |-> "first", sql |-> "select 1;"],
     [start_line |-> 50, end_line |-> 60, description |-> "second", sql |-> "select 2;"]}

\* position of the first comma in str, 0 if there is none
RECURSIVE FirstComma(_, _)
FirstComma(str, i) ==
    IF i > Len(str) THEN 0
    ELSE IF str[i] = "," THEN i
    ELSE FirstComma(str, i + 1)

\* while (std::getline(pstream, numberstring, ',')): the tokens it yields.
\* getline fails, and the loop ends, when no character is left; a comma at
\* the start of what is left yields an empty token.
RECURSIVE Tokens(_)
Tokens(str) ==
    IF str = <<>> THEN <<>>
    ELSE LET i == FirstComma(str, 1) IN
         IF i = 0 THEN <<str>>
         ELSE <<SubSeq(str, 1, i - 1)>> \o Tokens(SubSeq(str, i + 1, Len(str)))

\* length of the longest prefix of tok made of digits
RECURSIVE DigitPrefix(_, _)
DigitPrefix(tok, i) ==
    IF i > Len(tok) \/ tok[i] # "5" THEN i - 1
    ELSE DigitPrefix(tok, i + 1)

\* the number written by n digits 5
RECURSIVE Fives(_)
Fives(n) == IF n = 0 THEN 0 ELSE 10 * Fives(n - 1) + 5

\* numberstream >> number; numberstream.fail(): the extraction reads the
\* digits the token starts with and fails if there is none; what follows
\* the digits is not looked at
Extract(tok) ==
    LET n == DigitPrefix(tok, 1) IN [fail |-> n = 0, number |-> Fives(n)]

\* LineFilter::setParams (filter.cc 36-68) on a filter that holds nums,
\* from the tokens left: what it returns, writes to the caller's empty
\* errmsg, and leaves in linenumbers
RECURSIVE ParseTokens(_, _)
ParseTokens(toks, nums) ==
    IF toks = <<>>
    THEN [ret |-> nums # <<>>,
          errmsg |-> IF nums = <<>> THEN "No linenumbers given." ELSE "",
          linenumbers |-> nums]
    ELSE LET r == Extract(Head(toks)) IN
         IF r.fail
         THEN [ret |-> FALSE, errmsg |-> "Not a number", linenumbers |-> <<>>]
         ELSE ParseTokens(Tail(toks), Append(nums, r.number))

\* LineFilter::match (filter.cc 71-80)
LineMatch(nums, chunk) ==
    \E i \in 1..Len(nums) :
        chunk.start_line <= nums[i] /\ chunk.end_line >= nums[i]

\* RegexFilter::matchString (filter.cc 83-87)
MatchString(str) == TRUE

\* Filter::match of the three variants (filter.cc 71-80, 95-108)
Match(f, chunk) ==
    IF f.kind = "LineFilter" THEN LineMatch(f.linenumbers, chunk)
    ELSE IF f.kind = "DescriptionRegexFilter" THEN MatchString(chunk.description)
    ELSE MatchString(chunk.sql)

FilterKinds == {"LineFilter", "DescriptionRegexFilter", "ContentRegexFilter"}

\* a Filter is constructed
Construct ==
    /\ \E kind \in FilterKinds : filter' = NewFilter(kind)
    /\ setRet' = NoSet
    /\ UNCHANGED <<dbvars, filters, tvars>>

\* Filter::setParams is called with str and an empty errmsg:
\* LineFilter::setParams (filter.cc 36-68), RegexFilter::setParams (89-93)
SetParams ==
    /\ \E str \in ParamStrings :
        LET r == IF filter.kind = "LineFilter"
                 THEN ParseTokens(Tokens(str), filter.linenumbers)
                 ELSE [ret |-> TRUE, errmsg |-> "", linenumbers |-> <<>>]
        IN /\ Len(r.linenumbers) <= MaxNumbers
           /\ filter' = [filter EXCEPT !.linenumbers = r.linenumbers,
                                       !.configured = @ \/ r.ret]
           /\ setRet' = [ret |-> IF r.ret THEN "true" ELSE "false",
                         errmsg |-> r.errmsg, params |-> str]
    /\ UNCHANGED <<dbvars, filters, tvars>>

NextFilter == Construct \/ SetParams

SpecFilter == Init /\ [][NextFilter]_vars

\* ChainMatch that stops at the first filter that matches
RECURSIVE ChainMatch_Any(_, _)
ChainMatch_Any(fs, chunk) ==
    IF fs = <<>> THEN TRUE
    ELSE IF Match(Head(fs), chunk) THEN TRUE
    ELSE ChainMatch_Any(Tail(fs), chunk)

\* FilterChain::match (filter.cc 16-25)
RECURSIVE ChainMatch(_, _)
ChainMatch(fs, chunk) ==
    IF fs = <<>> THEN TRUE
    ELSE IF ~Match(Head(fs), chunk) THEN FALSE
    ELSE ChainMatch(Tail(fs), chunk)

\* the filters a caller adds to a chain: a LineFilter without numbers, one
\* for each chunk, one for both, and the two regex filters
SampleFilters ==
    {[NewFilter("LineFilter") EXCEPT !.linenumbers = nums, !.configured = nums # <<>>]
        : nums \in {<<>>, <<5>>, <<55>>, <<5, 55>>}}
    \cup {[NewFilter(kind) EXCEPT !.configured = TRUE]
            : kind \in {"DescriptionRegexFilter", "ContentRegexFilter"}}

\* FilterChain::addFilter (filter.cc 9-13)
AddFilter ==
    /\ Len(filters) < MaxFilters
    /\ \E f \in SampleFilters : filters' = Append(filters, f)
    /\ UNCHANGED <<dbvars, filter, setRet, tvars>>

NextChain == AddFilter

SpecChain == Init /\ [][NextChain]_vars


(* ======================================================================= *)
(* timeval_subtract (db.cc 17-35).                                         *)
(* ======================================================================= *)
\* the timestamps gettimeofday can give: tv_usec is in 0..999999
Timevals ==
    {Timeval(sec, usec) : sec \in 5..(5 + SecSpan),
                          usec \in {0, 1, 100000, 500000, 900000, 999999}}

\* Borrow that leaves y as it is
Borrow_None(x, y) == y

\* db.cc 20-24: y after the first if
Borrow(x, y) ==
    IF x.tv_usec < y.tv_usec
    THEN LET nsec == (y.tv_usec - x.tv_usec) \div Million + 1
         IN Timeval(y.tv_sec + nsec, y.tv_usec - Million * nsec)
    ELSE y

\* db.cc 25-29: y after the second if
Carry(x, y) ==
    IF x.tv_usec - y.tv_usec > Million
    THEN LET nsec == (x.tv_usec - y.tv_usec) \div Million
         IN Timeval(y.tv_sec - nsec, y.tv_usec + Million * nsec)
    ELSE y

\* timeval_subtract(result, x, y): y is a reference and is written to
Subtract ==
    /\ ~tvres.called
    /\ LET y == Carry(tvx, Borrow(tvx, tvy)) IN
        /\ tvy' = y
        /\ tvres' = [called |-> TRUE,
                     result |-> Timeval(tvx.tv_sec - y.tv_sec, tvx.tv_usec - y.tv_usec),
                     negative |-> tvx.tv_sec < y.tv_sec,
                     start |-> tvy]
    /\ UNCHANGED <<dbvars, fvars, tvx>>

InitTime ==
    /\ InitDb
    /\ InitFilter
    /\ tvx \in Timevals
    /\ tvy \in Timevals
    /\ tvres = NoResult

NextTime == Subtract

SpecTime == InitTime /\ [][NextTime]_vars


(* ======================================================================= *)
(* The claims.                                                             *)
(* ======================================================================= *)

\* a step of finalize: Db::finish called directly or through disconnect
Finalize == Finish \/ Disconnect

\* the effects of the chunks whose runChunk returned true in this transaction
OkEffects == {Effect(c) : c \in okSet}

(* ------------------------------- C1 ------------------------------------ *)
\* C1: once a chunk has ended with status Fail (runChunk returned false, or
\* threw after it had set the status to Fail), the next finalize, called
\* as finish or through disconnect, with do_commit true or false, commits
\* nothing: the database's committed effects are the same after it, and when
\* it returns normally the outer transaction is closed, its effects
\* discarded, and in_transaction is false.
C1_FailedRunIsRolledBack ==
    [][(anyFail /\ Finalize) =>
         /\ committed' = committed
         /\ ret' = "void" => (dbTxn' = "idle" /\ work' = {} /\ ~in_transaction')
      ]_vars

\* a finalize has just returned that found a failed chunk, do_commit true
\* and an open outer transaction holding the effects of an earlier chunk
C1_Witness ==
    /\ fin = "failed run" /\ ret = "void"
    /\ do_commit
    /\ committed = {}

(* ------------------------------- C2 ------------------------------------ *)
\* C2: when no chunk has ended with status Fail since the last finalize and
\* the outer transaction is open, finalize does what do_commit says and
\* nothing else decides: with do_commit true a finalize that returns has
\* committed every effect of the transaction (and one that throws has left
\* the transaction as it was); with do_commit false nothing is committed and
\* a finalize that returns has discarded the transaction's effects.  In both
\* cases a finalize that returns has closed the transaction.
C2_CleanRunFollowsPolicy ==
    [][(~anyFail /\ in_transaction /\ dbTxn = "open" /\ Finalize) =>
         /\ ret' = "void" => (dbTxn' = "idle" /\ work' = {} /\ ~in_transaction')
         /\ IF do_commit
            THEN /\ ret' = "void" => committed' = committed \cup work
                 /\ ret' # "void" =>
                      (committed' = committed /\ in_transaction' /\ work' = work
                       /\ dbTxn' = "open")
            ELSE committed' = committed
      ]_vars

\* a finalize has just returned that found only successful chunks, do_commit
\* true and an open transaction with effects, and these are now committed
C2_Witness ==
    /\ fin = "clean run" /\ ret = "void"
    /\ do_commit
    /\ committed # {}
    /\ dbTxn = "idle"

(* ------------------------------- C3 ------------------------------------ *)
\* C3: when runChunk returns false for chunk C, the effects C left in the
\* transaction are gone and nothing else is: the session holds exactly the
\* effects it held when C's savepoint was set, among them the effects of
\* every chunk that succeeded before C in this transaction, and the outer
\* transaction is open (also in the engine's books).  Whenever the SQL of a
\* chunk is in flight on the open connection, the session holds the effects
\* of the chunks that succeeded before it in this transaction.
C3_SavepointRollbackIsLocal ==
    /\ [][(pc = "end" /\ pc' = "idle" /\ ret' = "false") =>
            /\ Partial(cur) \in work
            /\ work' = work \ {Partial(cur)}
            /\ work' = workAtCall
            /\ OkEffects \subseteq work'
            /\ dbTxn' = "open"
            /\ in_transaction'
         ]_vars
    /\ []((pc = "sql" /\ Live) => (OkEffects \subseteq work /\ dbTxn = "open"))

\* runChunk has returned false after another chunk succeeded, and the
\* session still holds that chunk's effects, and no others
C3_Witness ==
    /\ pc = "idle" /\ ret = "false" /\ nFalse > 0
    /\ okSet # {}
    /\ work = OkEffects
    /\ dbTxn = "open" /\ in_transaction

(* ------------------------------- C4 ------------------------------------ *)
\* runChunk ends (returns or throws) in this step
RunChunkEnds == pc # "idle" /\ pc' = "idle"

\* runChunk returns in this step: the result of the statement that ends the
\* chunk was read and no exception was thrown
RunChunkReturns == pc = "end" /\ pc' = "idle" /\ ret' \notin Exceptions

C5_FlagTracksTransaction == in_transaction <=> dbTxn # "idle"

(* ------------------------------- C6 ------------------------------------ *)
\* C6: a chunk whose status is not Fail (Ok or NotRun) has error_line at the
\* not-available value and empty sqlstate, msg_primary, msg_detail, msg_hint.
C6_FieldsOnlyWhileFail ==
    \A c \in Chunks :
        diag[c].status # "Fail" =>
            /\ diag[c].error_line = LINE_NUMBER_NOT_AVAILABLE
            /\ diag[c].sqlstate = ""
            /\ diag[c].msg_primary = ""
            /\ diag[c].msg_detail = ""
            /\ diag[c].msg_hint = ""

(* ------------------------------- C7 ------------------------------------ *)
\* C7: a runChunk called while the connection is not usable (isConnected is
\* false: no handle, a handle that never opened, a connection that was lost)
\* ends at once with the "lost db connection" exception; and every runChunk
\* that ends with this exception has changed nothing: the engine's fields
\* (in_transaction and failed_count among them), the diagnostics of every
\* chunk, the handles and the session are as before, and no statement is in
\* flight.
C7_UnusableConnectionThrows ==
    [][(pc = "idle" /\ nrun' = nrun + 1) =>
         /\ "CONNECTION_OK" \notin PQstatus => ret' = ExcLost
         /\ ret' = ExcLost =>
              /\ pc' = "idle"
              /\ UNCHANGED <<engine, diag, hstate, session>>
      ]_vars

\* runChunk has just thrown "lost db connection" in a run whose connection
\* broke after a chunk had run: the flag and the diagnostics are as they were
C7_Witness ==
    /\ pc = "idle" /\ ret = ExcLost
    /\ conn # NULL /\ hstate[conn] = "bad"
    /\ in_transaction
    /\ \E c \in Chunks : diag[c].status = "Ok"
    /\ \E c \in Chunks : diag[c].status = "NotRun"

(* ------------------------------- C8 ------------------------------------ *)
\* a cancel request interrupts the statement whose result is read in this
\* step: the chunk's SQL, or a savepoint statement of the engine
CancelAborts ==
    \/ pc = "sql" /\ anyCancelled' /\ ~anyCancelled
    \/ pc = "end" /\ sqlErr.kind = "cancelled"
    \/ pc \in {"savepoint", "end"} /\ dbTxn = "open" /\ dbTxn' = "aborted"

C9_DisconnectReleases ==
    [][(Disconnect /\ conn # NULL /\ hstate[conn] # "freed") =>
          hstate'[conn] = "freed" ]_vars

(* ------------------------------- C10 ----------------------------------- *)
\* the line the spec gives a failed chunk whose error report carries offset p
ExpectedLine(c, p) ==
    IF p = NoPos THEN LINE_NUMBER_NOT_AVAILABLE
    ELSE IF p <= Len(Sql(c)) THEN StartLine(c) + CountNewlines(Sql(c), p)
    ELSE LINE_NUMBER_NOT_AVAILABLE

\* C10: once the error result of a chunk's SQL has been recorded, the
\* chunk's error_line is start_line plus the newlines up to the offset when
\* the offset lies within the text, and the not-available value when the
\* offset exceeds the text length or the database reports no offset.
C10_ErrorLineTranslation ==
    (pc = "end" /\ sqlErr.kind # "none") =>
        diag[cur].error_line = ExpectedLine(cur, sqlErr.pos)

(* ------------------------------- C11 ----------------------------------- *)
\* C11: a call of cancel made while no usable connection exists (isConnected
\* is false: no handle, a handle that never opened, a lost connection)
\* returns true, writes nothing to errmsg and changes nothing else: no
\* request reaches the session.  Every call of cancel, whatever it returns,
\* leaves conn, do_commit, failed_count, in_transaction and the diagnostics of
\* every chunk unchanged.
C11_CancelLeavesEngineAlone ==
    [][Cancel =>
         /\ UNCHANGED <<engine, diag>>
         /\ "CONNECTION_OK" \notin PQstatus =>
              /\ cancelOut' = [ret |-> "true", errmsg |-> ""]
              /\ UNCHANGED <<hstate, session, thread, ret>>
      ]_vars

\* cancel has just returned true on a connection that was lost while the
\* chunk's SQL was in flight inside an open outer transaction
C11_Witness ==
    /\ cancelOut.ret = "true"
    /\ conn # NULL /\ hstate[conn] = "bad"
    /\ pc = "sql" /\ in_transaction /\ ~cancelHit

(* ------------------------------- C12 ----------------------------------- *)
\* C12: whenever cancel returns false, errmsg has been filled with the
\* reason; whenever it returns true on an open connection while a statement
\* of runChunk is in flight, the request has reached the session.
C12_FalseCarriesReason ==
    [][Cancel =>
         /\ cancelOut'.ret = "false" => cancelOut'.errmsg # ""
         /\ (cancelOut'.ret = "true" /\ Live /\ pc # "idle") => cancelHit'
      ]_vars

(* ------------------------------- C13 ----------------------------------- *)
\* C13: a Filter of any variant for which no setParams has returned true
\* (never called, or it returned false every time) matches no chunk.
C13_UnconfiguredNeverMatches ==
    ~filter.configured => \A c \in FilterChunks : ~Match(filter, c)

(* ------------------------------- C14 ----------------------------------- *)
\* a token is a number: one or more digits and nothing else
IsNumber(tok) == tok # <<>> /\ \A i \in 1..Len(tok) : tok[i] = "5"

\* the parameter string has a malformed token or yields no line number
Misconfigured(str) ==
    \/ Tokens(str) = <<>>
    \/ \E i \in 1..Len(Tokens(str)) : ~IsNumber(Tokens(str)[i])

\* C14: whatever a LineFilter held before, a setParams whose string has a
\* malformed token or yields no line number returns false, fills errmsg, and
\* leaves the filter without line numbers: it matches no chunk afterwards.
C14_SetParamsFailsClosed ==
    [][(SetParams /\ filter.kind = "LineFilter" /\ Misconfigured(setRet'.params)) =>
         /\ setRet'.ret = "false"
         /\ setRet'.errmsg # ""
         /\ filter'.linenumbers = <<>>
         /\ \A c \in FilterChunks : ~Match(filter', c)
      ]_vars

(* ------------------------------- C15 ----------------------------------- *)
\* the filters of the chain in the order p
Reordered(p) == [i \in 1..Len(filters) |-> filters[p[i]]]

\* C15: FilterChain::match is true for a chunk exactly when every filter of
\* the chain matches it: a chain without filters matches every chunk, a
\* chain holding a filter that matches no chunk matches no chunk, and the
\* chain with its filters in any other order gives the same result.
C15_ChainIsConjunction ==
    \A c \in FilterChunks :
        /\ ChainMatch(filters, c) <=> \A i \in 1..Len(filters) : Match(filters[i], c)
        /\ filters = <<>> => ChainMatch(filters, c)
        /\ (\E i \in 1..Len(filters) : \A d \in FilterChunks : ~Match(filters[i], d))
              => ~ChainMatch(filters, c)
        /\ \A p \in Permutations(1..Len(filters)) :
              ChainMatch(Reordered(p), c) <=> ChainMatch(filters, c)

\* a chain of a regex filter and two line filters that matches one chunk
\* (every filter matches it) and not the other (the second filter does not)
C15_Witness ==
    /\ Len(filters) = 3
    /\ filters[1].kind = "DescriptionRegexFilter"
    /\ filters[2].linenumbers = <<5>>
    /\ filters[3].linenumbers = <<5, 55>>
    /\ \E c \in FilterChunks : ChainMatch(filters, c)
    /\ \E c \in FilterChunks : ~ChainMatch(filters, c)

(* ------------------------------- C16 ----------------------------------- *)
\* a timestamp in microseconds
Micros(tv) == tv.tv_sec * Million + tv.tv_usec

\* C16: for every start and end with microseconds in 0..999999 and end not
\* earlier than start, the runtime computed is end - start: sec * 1000000 +
\* usec is the difference in microseconds, sec >= 0 and 0 <= usec < 1000000;
\* for start (5, 900000) and end (6, 100000) it is (0, 200000).
C16_RuntimeIsDifference ==
    (tvres.called /\ Micros(tvx) >= Micros(tvres.start)) =>
        /\ Micros(tvres.result) = Micros(tvx) - Micros(tvres.start)
        /\ tvres.result.tv_sec >= 0
        /\ tvres.result.tv_usec >= 0 /\ tvres.result.tv_usec < Million
        /\ ~tvres.negative
        /\ (tvx = Timeval(6, 100000) /\ tvres.start = Timeval(5, 900000))
              => tvres.result = Timeval(0, 200000)

\* the runtime of a chunk that started at (5, 900000) and ended at
\* (6, 100000) has been computed: 0.2 s
C16_Witness ==
    /\ tvres.called
    /\ tvx = Timeval(6, 100000) /\ tvres.start = Timeval(5, 900000)
    /\ tvres.result = Timeval(0, 200000)

(* ------------------------------- C17 ----------------------------------- *)
\* C17: on a usable connection the statements go out in the order begin,
\* then per runChunk savepoint, SQL and one of release / rollback to
\* savepoint, then one commit or rollback at finalize:
\*   - a runChunk sends begin exactly when no outer transaction is open;
\*   - the chunk's SQL is sent after its savepoint and only inside an open
\*     outer transaction;
\*   - a runChunk whose SQL was dispatched does not end before it has sent
\*     the release or the rollback to the savepoint, and when it returns the
\*     savepoint is released (status Ok) or the session is back at it
\*     (status Fail);
\*   - a finalize that finds an open outer transaction closes it;
\*   - a finish that finds no open outer transaction changes no state.
C17_StatementOrder ==
    /\ [][(pc = "idle" /\ nrun' = nrun + 1 /\ Live) =>
            (pc' = "begin" <=> dbTxn = "idle")]_vars
    /\ [][(pc' = "sql" /\ pc # "sql") => pc = "savepoint"]_vars
    /\ [][(pc' = "end" /\ pc # "end") => pc = "sql"]_vars
    /\ []((pc = "sql" /\ Live) => dbTxn = "open")
    /\ [][(pc = "sql" /\ Live /\ RunChunkEnds) => ret' = ExcPQexec]_vars
    /\ [][RunChunkReturns =>
            IF diag[cur].status = "Ok" THEN sp' = <<>>
            ELSE sp' # <<>> /\ work' = sp'[1]]_vars
    /\ [][(Finalize /\ Live /\ dbTxn # "idle" /\ ret' = "void") =>
            dbTxn' = "idle"]_vars
    /\ [][(Finish /\ Live /\ dbTxn = "idle") =>
            (ret' = "void" /\ UNCHANGED <<engine, diag, hstate, session>>)]_vars

(* ------------------------------- C18 ----------------------------------- *)
\* C18: when a runChunk has ended with an engine-level exception after the
\* outer transaction was opened, a later finalize (finish or disconnect)
\* commits nothing.  Stated for the finalize that follows a runChunk ended by
\* a clock-read failure (db.cc 118-121, 134-137: both after begin()).
C18_AbortedRunNotCommitted ==
    [][(ret = ExcClock /\ in_transaction /\ Finalize) =>
          committed' = committed]_vars

(* ------------------------------- C19 ----------------------------------- *)
\* C19: a chunk left with status Ok is a chunk whose SQL was sent in its most
\* recent attempt and accepted without a reported error:
\*   - a runChunk that ends leaving its chunk Ok has returned true, or was
\*     ended by an exception after the database had accepted the SQL;
\*   - a runChunk that ends with an exception before the SQL was sent, or
\*     because the SQL could not be dispatched, does not leave its chunk Ok;
\*   - a runChunk that throws before its first statement makes no chunk Ok.
C19_OkMeansAccepted ==
    /\ [][(RunChunkEnds /\ diag'[cur].status = "Ok") =>
            \/ pc = "end" /\ sqlErr.kind = "none"
            \/ pc = "sql" /\ ret' = ExcClock /\ dbTxn' = "open"
         ]_vars
    /\ [][(RunChunkEnds /\ ret' \in Exceptions
             /\ (pc \in {"begin", "savepoint"} \/ (pc = "sql" /\ ret' = ExcPQexec))) =>
            diag'[cur].status # "Ok"]_vars
    /\ [][(pc = "idle" /\ nrun' = nrun + 1 /\ pc' = "idle") =>
            \A c \in Chunks : diag'[c].status = "Ok" => diag[c].status = "Ok"]_vars

(* ------------------------------- C20 ----------------------------------- *)
\* disconnect (or the destructor) gets as far as PQfinish(conn)
PQfinishCalled == Disconnect /\ conn # NULL /\ ret' \notin Exceptions

\* a call that hands conn to libpq: runChunk, cancel, disconnect
UsesHandle == (pc = "idle" /\ nrun' = nrun + 1) \/ Cancel \/ Disconnect

\* C20: each connection is released exactly once:
\*   - the handle PQfinish is called with has not been released before;
\*   - connect replaces no handle that is not released;
\*   - no call hands a released handle to libpq.
C20_ReleasedExactlyOnce ==
    /\ [][PQfinishCalled => ~Dangling]_vars
    /\ [][Connect => (conn = NULL \/ Dangling)]_vars
    /\ [][UsesHandle => ~Dangling]_vars

=============================================================================
